---- MODULE Spec2Model ----
(***************************************************************************)
(* Model of the Bezier path editor of src/index.tsx (component App): the   *)
(* node sequence, the closed flag, the undo/redo history, the transient    *)
(* interaction state (drag target, selection, panning, symmetry mode, the  *)
(* refs wasDragging / mouseDownPos / panStartPos) and the handlers that    *)
(* change them.                                                            *)
(*                                                                         *)
(* Conventions.                                                            *)
(*  - Node objects have identity: `nodes' and every history entry hold     *)
(*    references (indices into `heap'), so that an in-place write to a     *)
(*    node object is seen through every array that holds it.  Arrays are   *)
(*    never written in place by the code once published, so they are       *)
(*    values.  Points are never written in place either.                   *)
(*  - Indices into nodes and history are 0-based as in the code; the       *)
(*    TLA+ sequences are read at index+1.                                   *)
(*  - Coordinates are fixed-point: integers in world units.  A double      *)
(*    result that is no integer is rounded to the nearest one (RDiv).      *)
(*  - zoom is in thousandths (250 is the initial 0.25).                    *)
(*  - A pointer event is given by the world point getSVGCoordinates        *)
(*    computes for it and, for the pan logic, its client point.            *)
(*  - A behaviour plays one scenario (a script of events, each through     *)
(*    its handler, from the state after construction) and then explores    *)
(*    MaxFree further events of any kind.                                  *)
(*  - last, commit, gesture, travel and ctrlHeld record what the events    *)
(*    and the handlers did; no handler reads them.                         *)
(***************************************************************************)
EXTENDS Integers, Sequences, FiniteSets, TLC

\* ---------------------------------------------------------------- constants
SMOOTHING_DIV == 4
INSERT_THRESHOLD == 10
DRAG_THRESHOLD == 3
SNAP_GRID_SIZE == 10
ANCHOR_HIT == 10
HANDLE_HIT == 8
DEFAULT_HANDLE == 50
STEPS == 30
INITIAL_ZOOM == 250
ZOOM_UNIT == 1000

\* ------------------------------------------------------------------- bounds
\* The number of events explored freely after a scenario has been played.
MaxFree == 3
\* The greatest number of clicks of the append / undo / redo scenarios.
MaxClicks == 3
\* Wheel ticks of the zoom scenarios: enough to take the initial zoom down to
\* MIN_ZOOM and up to MAX_ZOOM.
TicksOut == 10
TicksIn == 39

Pt(px, py) == [x |-> px, y |-> py]
\* World points of the freely explored pointer events.
Pts == {Pt(0, 0), Pt(200, 0), Pt(200, 200), Pt(100, 0), Pt(100, 100)}
\* Client points of the freely explored pointer events (read by pan and zoom only).
ClientPts == {Pt(0, 0), Pt(40, 0)}

\* ----------------------------------------------------------------- geometry
Abs(v) == IF v < 0 THEN -v ELSE v

\* a / b for b > 0, rounded to the nearest integer (the fixed-point grid).
RDiv(a, b) == (2 * a + b) \div (2 * b)

RECURSIVE ISqrt(_)
ISqrt(n) ==
    IF n < 2 THEN n
    ELSE LET s == 2 * ISqrt(n \div 4)
         IN  IF (s + 1) * (s + 1) <= n THEN s + 1 ELSE s

DistSq(p, q) == (p.x - q.x) * (p.x - q.x) + (p.y - q.y) * (p.y - q.y)

\* sqrt(d2) < num / zoom, decided on the squares without overflow.
LessThanOverZoom(d2, num, zm) ==
    LET n  == num * ZOOM_UNIT
        fl == n \div zm
    IN  IF d2 >= (fl + 1) * (fl + 1) THEN FALSE
        ELSE IF d2 < fl * fl THEN TRUE
        ELSE d2 * zm * zm < n * n

\* sqrt(d2) > num / zoom.
MoreThanOverZoom(d2, num, zm) ==
    LET n  == num * ZOOM_UNIT
        fl == n \div zm
    IN  IF d2 >= (fl + 1) * (fl + 1) THEN TRUE
        ELSE IF d2 <= fl * fl THEN FALSE
        ELSE d2 * zm * zm > n * n

\* One coordinate of the cubic at t = i / STEPS.
BezierCoord(i, a0, a1, a2, a3) ==
    LET u == STEPS - i
    IN  RDiv(u * u * u * a0 + 3 * u * u * i * a1 + 3 * u * i * i * a2 + i * i * i * a3,
             STEPS * STEPS * STEPS)

getPointOnCubicBezier(i, p0, p1, p2, p3) ==
    Pt(BezierCoord(i, p0.x, p1.x, p2.x, p3.x), BezierCoord(i, p0.y, p1.y, p2.y, p3.y))

\* The first of the least entries of d: [distSq, t] with t in 1/STEPS.
firstLeast(d) ==
    LET best == CHOOSE i \in 0..STEPS :
                    /\ \A j \in 0..STEPS : d[i] <= d[j]
                    /\ \A j \in 0..(i - 1) : d[j] > d[i]
    IN  [distSq |-> d[best], t |-> best]

\* The first sample of least distance.  (The samples are bound as a value, so
\* that they are computed once.)
findClosestPointOnCubicBezier(point, p0, p1, p2, p3) ==
    CHOOSE r \in {firstLeast(d) :
                    d \in {[i \in 0..STEPS |->
                               DistSq(getPointOnCubicBezier(i, p0, p1, p2, p3), point)]}} : TRUE

\* (1 - t) * a + t * b at t = i / STEPS, per point.
Lerp(i, a, b) ==
    Pt(RDiv((STEPS - i) * a.x + i * b.x, STEPS), RDiv((STEPS - i) * a.y + i * b.y, STEPS))

\* p + len * (cos, sin)(atan2(to - from)), len = factor * |to - from|, factor = 1/div:
\* the point at 1/div of the way along the direction from -> to, laid off from p.
AlongFraction(p, from, to, sign, div) ==
    Pt(p.x + sign * RDiv(to.x - from.x, div), p.y + sign * RDiv(to.y - from.y, div))

\* anchor + len * (cos, sin)(atan2(anchor - moved)), len = |anchor - other|:
\* the opposite handle of a smooth node; atan2(0, 0) is 0.
OppositeHandle(anchor, moved, other) ==
    LET dd == DistSq(anchor, moved)
        ll == DistSq(anchor, other)
    IN  IF dd = 0 THEN Pt(anchor.x + ISqrt(ll), anchor.y)
        ELSE LET ln == ISqrt(ll * 100)
                 dn == ISqrt(dd * 100)
             IN  Pt(anchor.x + RDiv((anchor.x - moved.x) * ln, dn),
                    anchor.y + RDiv((anchor.y - moved.y) * ln, dn))

snapValue(on, v) ==
    IF on THEN ((2 * v + SNAP_GRID_SIZE) \div (2 * SNAP_GRID_SIZE)) * SNAP_GRID_SIZE ELSE v
snapPoint(on, p) == Pt(snapValue(on, p.x), snapValue(on, p.y))

\* -------------------------------------------------------------------- state
VARIABLES
    heap,               \* the node objects: heap[r] is the object of reference r
    nodes,              \* sequence of references            (useState, line 135)
    isPathClosed,
    draggedInfo,
    selectedNodeIndex,
    isSnapEnabled,
    viewState,
    isPanning,
    isSpacePressed,
    symmetryState,
    wasDragging,        \* useRef
    mouseDownPos,       \* useRef: <<>> is null, <<p>> a point
    panStartPos,        \* useRef: <<>> is null, <<c>> a client point
    history,            \* sequence of [nodes, isPathClosed], nodes by reference
    historyIndex,
    crashed,            \* a render threw: the root is unmounted
    pointer,            \* the environment: <<>> button up, <<p>> button held at p
    last,               \* the handler that ran last and its outcome
    commit,             \* <<>>, or <<c>>: the call of updateStateAndHistory the last
                        \* handler made, with the history it was made on
    gesture,            \* the outcome of the pointer-down of the gesture under way
    travel,             \* <<>>, or <<t>>: where the button went down and whether
                        \* the pointer has since been farther than the drag
                        \* threshold from there
    ctrlHeld,           \* whether the last event was a pointer-up with ctrl held
    lastClient,         \* <<>>, or <<c>>: the client point of the previous pointer-down
                        \* or pointer-move, kept while panning is active
    tally,              \* <<>>, or <<t>> from a pointer-down to the next pointer-up or
                        \* pointer-leave: the commits the pointer handlers made since
                        \* then and whether they changed the path
    scenario,           \* the scenario being played
    plan,               \* the events of the scenario still to be played
    free                \* the number of events explored since the scenario ended

vars == <<heap, nodes, isPathClosed, draggedInfo, selectedNodeIndex, isSnapEnabled,
          viewState, isPanning, isSpacePressed, symmetryState, wasDragging,
          mouseDownPos, panStartPos, history, historyIndex, crashed, pointer, last,
          commit, gesture, travel, ctrlHeld, lastClient, tally, scenario, plan, free>>

NullIndex == 0 - 1
NoDrag == [index |-> NullIndex, type |-> "null"]
Drag(i, role) == [index |-> i, type |-> role]

mkNode(a, c1, c2, kind) == [anchor |-> a, ctrl1 |-> c1, ctrl2 |-> c2, type |-> kind]

\* The node objects of an array, read through the heap.
Deref(h, ns) == [i \in 1..Len(ns) |-> h[ns[i]]]
\* A history entry by value.
EntryValue(h, e) == [nodes |-> Deref(h, e.nodes), isPathClosed |-> e.isPathClosed]

liveNodes == Deref(heap, nodes)
historyValues == [i \in 1..Len(history) |-> EntryValue(heap, history[i])]

\* ----------------------------------------------------- references, renamed
\* References are renamed in the order in which the live array and then the
\* history entries first mention them; objects nothing mentions are dropped.
RECURSIVE FirstMentions(_, _)
FirstMentions(s, seen) ==
    IF s = <<>> THEN <<>>
    ELSE IF Head(s) \in seen THEN FirstMentions(Tail(s), seen)
    ELSE <<Head(s)>> \o FirstMentions(Tail(s), seen \cup {Head(s)})

RECURSIVE HistoryRefs(_)
HistoryRefs(hist) ==
    IF hist = <<>> THEN <<>> ELSE Head(hist).nodes \o HistoryRefs(Tail(hist))

\* (The arguments are bound as values first, so that they are computed once.)
SetPath(h, ns, hist) ==
    \E hv \in {h}, nv \in {ns}, histv \in {hist} :
      \E ord \in {FirstMentions(nv \o HistoryRefs(histv), {})} :
        \E new \in {[r \in {ord[k] : k \in 1..Len(ord)} |->
                        CHOOSE k \in 1..Len(ord) : ord[k] = r]} :
        LET ren(s) == [i \in 1..Len(s) |-> new[s[i]]]
        IN  /\ heap' = [k \in 1..Len(ord) |-> hv[ord[k]]]
            /\ nodes' = ren(nv)
            /\ history' = [i \in 1..Len(histv) |->
                              [nodes |-> ren(histv[i].nodes),
                               isPathClosed |-> histv[i].isPathClosed]]

\* A commit that keeps the entries after the current index.
updateStateAndHistory_keepsRedo(h, newNodes, newIsPathClosed) ==
    \E hv \in {h}, nv \in {newNodes} :
        LET newHistory == Append(history, [nodes |-> nv, isPathClosed |-> newIsPathClosed])
        IN  /\ isPathClosed' = newIsPathClosed
            /\ SetPath(hv, nv, newHistory)
            /\ historyIndex' = Len(newHistory) - 1
            /\ commit' = <<[history |-> [j \in 1..Len(history) |-> EntryValue(hv, history[j])],
                            historyIndex |-> historyIndex,
                            nodes |-> Deref(hv, nv),
                            isPathClosed |-> newIsPathClosed]>>

updateStateAndHistory(h, newNodes, newIsPathClosed) ==
    \E hv \in {h}, nv \in {newNodes} :
        LET newHistory == Append(SubSeq(history, 1, historyIndex + 1),
                                 [nodes |-> nv, isPathClosed |-> newIsPathClosed])
        IN  /\ isPathClosed' = newIsPathClosed
            /\ SetPath(hv, nv, newHistory)
            /\ historyIndex' = Len(newHistory) - 1
            /\ commit' = <<[history |-> [j \in 1..Len(history) |-> EntryValue(hv, history[j])],
                            historyIndex |-> historyIndex,
                            nodes |-> Deref(hv, nv),
                            isPathClosed |-> newIsPathClosed]>>

\* ---------------------------------------------------------------- scenarios
\* An event of the user: the handler it reaches and its inputs.
Ev(op, point, client, flag) == [op |-> op, point |-> point, client |-> client, flag |-> flag]
Origin == Pt(0, 0)
Cmd(op) == Ev(op, Origin, Origin, FALSE)
Down(p) == Ev("down", p, Origin, FALSE)
MoveTo(p) == Ev("move", p, Origin, FALSE)
Up == Cmd("up")
Click(p) == <<Down(p), Up>>

\* The point of the j-th plain click of a scenario (j from 0): a staircase,
\* each point away from the anchors and the segments laid before it.
ClickPt(j) == Pt(200 * ((j + 1) \div 2), 200 * (j \div 2))

RECURSIVE Clicks(_)
Clicks(n) == IF n = 0 THEN <<>> ELSE Clicks(n - 1) \o Click(ClickPt(n - 1))
Times(n, e) == [i \in 1..n |-> e]

\* n plain clicks, n undos, n redos.
AppendUndoRedo(n) == Clicks(n) \o Times(n, Cmd("undo")) \o Times(n, Cmd("redo"))

OpenTriangle == Clicks(3)
ClosedTriangle == OpenTriangle \o <<Cmd("close")>>
\* The closed triangle with its second anchor dragged off the first edge.
CurvedTriangle == ClosedTriangle \o <<Down(Pt(200, 0)), MoveTo(Pt(200, 100)), Up>>
ClosedSquare ==
    Click(Pt(0, 0)) \o Click(Pt(200, 0)) \o Click(Pt(200, 200)) \o Click(Pt(0, 200))
    \o <<Cmd("close")>>

\* Space held, the button pressed on the empty canvas, space let go: the
\* button of a pan gesture is still down.
PanLetGo == <<Cmd("space-down"), Down(Pt(0, 0)), Cmd("space-up")>>

\* The button pressed on the ctrl2 handle, at (200, 50), of the node at
\* (200, 0): a corner node of the closed triangle, and a smooth axis node after
\* a symmetry pick of the edge from (0, 0) to (200, 0).
HandlePt == Pt(200, 50)
CornerHandleHeld == ClosedTriangle \o <<Down(HandlePt)>>
SmoothHandleHeld ==
    ClosedTriangle \o <<Cmd("symmetry"), Down(Pt(100, 0)), Up, Down(HandlePt)>>

\* The button pressed on the ctrl2 handle, at (250, 200), of the last node of
\* the open triangle, away from every anchor and segment.
OpenHandlePt == Pt(250, 200)
OpenHandlePressed == OpenTriangle \o <<Down(OpenHandlePt)>>

\* The wheel turned, over the client point (40, 0), until the zoom is clamped.
Wheel(zoomIn) == Ev("wheel", Origin, Pt(40, 0), zoomIn)
ZoomedOut == Times(TicksOut, Wheel(FALSE))
ZoomedIn == Times(TicksIn, Wheel(TRUE))

\* The scenarios: each is played from the state after construction, event by
\* event through the handlers, and then MaxFree further events are explored.
Plans ==
    { <<>>,
      OpenTriangle,
      ClosedTriangle,
      ClosedTriangle \o <<Cmd("symmetry")>>,
      CurvedTriangle \o <<Cmd("symmetry")>>,
      ClosedSquare \o <<Cmd("symmetry")>> }
    \cup {AppendUndoRedo(n) : n \in 1..MaxClicks}
    \cup {PanLetGo, CornerHandleHeld, SmoothHandleHeld, OpenHandlePressed}
    \cup {ZoomedOut, ZoomedIn}

\* The environment takes event e: the next event of the scenario, or, after
\* it, any event with inputs of the explored sets while the budget lasts.
Env(e) ==
    IF plan # <<>>
    THEN /\ e = Head(plan)
         /\ plan' = Tail(plan)
         /\ free' = free
    ELSE /\ free < MaxFree
         /\ e.point \in Pts \cup {Origin}
         /\ e.client \in ClientPts \cup {Origin}
         /\ plan' = plan
         /\ free' = free + 1

\* One step: the environment gives event e, the handler runs, and the
\* pointer-down that began the gesture is kept until the button is released.
Step(e, handler) ==
    /\ Env(e)
    /\ handler
    /\ gesture' = IF e.op = "down" THEN last'
                  ELSE IF e.op = "up" \/ (e.op = "leave" /\ ~e.flag) THEN "none"
                  ELSE gesture
    /\ travel' = IF e.op = "down" THEN <<[from |-> e.point, far |-> FALSE]>>
                 ELSE IF e.op = "up" \/ (e.op = "leave" /\ ~e.flag) THEN <<>>
                 ELSE IF e.op = "move" /\ travel # <<>>
                 THEN <<[travel[1] EXCEPT !.far =
                            @ \/ MoreThanOverZoom(DistSq(e.point, travel[1].from),
                                                  DRAG_THRESHOLD, viewState.zoom)]>>
                 ELSE travel
    /\ ctrlHeld' = (e.op = "up" /\ e.flag)
    /\ lastClient' = IF ~isPanning' THEN <<>>
                     ELSE IF e.op \in {"down", "move"} THEN <<e.client>>
                     ELSE lastClient
    /\ tally' = IF e.op = "down"
                THEN <<[entries |-> Len(commit'),
                        edited |-> Deref(heap', nodes') # Deref(heap, nodes)
                                   \/ isPathClosed' # isPathClosed]>>
                ELSE IF e.op \in {"up", "leave"} THEN <<>>
                ELSE IF e.op = "move" /\ tally # <<>>
                THEN <<[entries |-> tally[1].entries + Len(commit'),
                        edited |-> tally[1].edited
                                   \/ Deref(heap', nodes') # Deref(heap, nodes)
                                   \/ isPathClosed' # isPathClosed]>>
                ELSE tally
    /\ UNCHANGED scenario

PlanPts == {plan[i].point : i \in 1..Len(plan)}
PlanClients == {plan[i].client : i \in 1..Len(plan)}

Init ==
    /\ heap = <<>>
    /\ nodes = <<>>
    /\ isPathClosed = FALSE
    /\ draggedInfo = NoDrag
    /\ selectedNodeIndex = NullIndex
    /\ isSnapEnabled = FALSE
    /\ viewState = [zoom |-> INITIAL_ZOOM, pan |-> Pt(0, 0)]
    /\ isPanning = FALSE
    /\ isSpacePressed = FALSE
    /\ symmetryState = "inactive"
    /\ wasDragging = FALSE
    /\ mouseDownPos = <<>>
    /\ panStartPos = <<>>
    /\ history = <<[nodes |-> <<>>, isPathClosed |-> FALSE]>>
    /\ historyIndex = 0
    /\ crashed = FALSE
    /\ pointer = <<>>
    /\ last = "init"
    /\ commit = <<>>
    /\ gesture = "none"
    /\ travel = <<>>
    /\ ctrlHeld = FALSE
    /\ tally = <<>>
    /\ lastClient = <<>>
    /\ scenario \in Plans
    /\ plan = scenario
    /\ free = 0

\* The node at 0-based index i of the live array, and the segment from it.
nodeAt(i) == heap[nodes[i + 1]]
nextIndex(i) == (i + 1) % Len(nodes)

segmentDistance(point, i) ==
    findClosestPointOnCubicBezier(point, nodeAt(i).anchor, nodeAt(i).ctrl2,
                                  nodeAt(nextIndex(i)).ctrl1, nodeAt(nextIndex(i)).anchor)

\* let minDistance = Infinity (line 221), or a threshold over the zoom (line 376).
Infinity == 0 - 1
belowLimit(d2, limit) == limit = Infinity \/ LessThanOverZoom(d2, limit, viewState.zoom)

\* The first index of least distance among the segments whose distance, in
\* dist, is below limit / zoom, with its parameter: [index, t]; index is
\* NullIndex when there is none.
closestOf(dist, limit) ==
    LET cand == {i \in DOMAIN dist : belowLimit(dist[i].distSq, limit)}
    IN  IF cand = {} THEN [index |-> NullIndex, t |-> 0]
        ELSE LET best == CHOOSE i \in cand :
                            /\ \A j \in cand : dist[i].distSq <= dist[j].distSq
                            /\ \A j \in cand : j < i => dist[j].distSq > dist[i].distSq
             IN  [index |-> best, t |-> dist[best].t]

\* (The distances are bound as a value, so that they are computed once.)
closestSegment(point, count, limit) ==
    CHOOSE r \in {closestOf(dist, limit) :
                    dist \in {[i \in 0..(count - 1) |-> segmentDistance(point, i)]}} : TRUE

\* ----------------------------------------------------------------- symmetry
Cross(pA, pB, c) == (pB.x - pA.x) * (c.y - pA.y) - (pB.y - pA.y) * (c.x - pA.x)

\* Math.abs(cross) < 1e-3 on both handles of the edge; the cross products of
\* fixed-point coordinates are integers.
\* A test that takes every edge for straight.
isStraight_always(pA, pB, ctrlA, ctrlB) == TRUE

isStraight(pA, pB, ctrlA, ctrlB) == Abs(Cross(pA, pB, ctrlA)) < 1 /\ Abs(Cross(pA, pB, ctrlB)) < 1

reflectPoint(pA, pB, p) ==
    LET A_coeff == pB.y - pA.y
        B_coeff == pA.x - pB.x
        C_coeff == pB.x * pA.y - pB.y * pA.x
        D_coeff == A_coeff * A_coeff + B_coeff * B_coeff
        val == A_coeff * p.x + B_coeff * p.y + C_coeff
    IN  IF D_coeff = 0 THEN p
        ELSE Pt(p.x - RDiv(2 * A_coeff * val, D_coeff), p.y - RDiv(2 * B_coeff * val, D_coeff))

reflectNode(pA, pB, node) ==
    mkNode(reflectPoint(pA, pB, node.anchor), reflectPoint(pA, pB, node.ctrl1),
           reflectPoint(pA, pB, node.ctrl2), node.type)

\* A mirrored copy whose handles keep their roles.
mirroredNode_noSwap(pA, pB, node) == reflectNode(pA, pB, node)

\* The mirrored copy of an intermediate node: reflected, then its handles swapped.
mirroredNode(pA, pB, node) ==
    LET r == reflectNode(pA, pB, node)
    IN  [r EXCEPT !.ctrl1 = r.ctrl2, !.ctrl2 = r.ctrl1]

\* The intermediate nodes without the last of them.
intermediateNodes_short(k) ==
    [j \in 1..(Len(nodes) - 3) |-> nodeAt((k + 1 + j) % Len(nodes))]

\* The intermediate nodes (by value): the body from B round to A without both.
intermediateNodes(k) ==
    [j \in 1..(Len(nodes) - 2) |-> nodeAt((k + 1 + j) % Len(nodes))]

\* The new axis nodes.
seamA(pA, pB, node) == [node EXCEPT !.ctrl2 = reflectPoint(pA, pB, node.ctrl1), !.type = "smooth"]
seamB(pA, pB, node) == [node EXCEPT !.ctrl1 = reflectPoint(pA, pB, node.ctrl2), !.type = "smooth"]

\* combinedNodes, by value, for the axis edge that starts at index k.
combinedNodes(k) ==
    LET nodeA == nodeAt(k)
        nodeB == nodeAt(nextIndex(k))
        pA == nodeA.anchor
        pB == nodeB.anchor
        mid == intermediateNodes(k)
        m == Len(mid)
        mirrored == [j \in 1..m |-> mirroredNode(pA, pB, mid[m + 1 - j])]
    IN  <<seamA(pA, pB, nodeA)>> \o mirrored \o <<seamB(pA, pB, nodeB)>> \o mid

\* The outcome of a pick, before any state is written.
symmetryOutcome(point) ==
    IF ~isPathClosed \/ Len(nodes) < 3 THEN [kind |-> "not-eligible", edge |-> NullIndex]
    ELSE LET k == closestSegment(point, Len(nodes), Infinity).index
         IN  IF k = NullIndex THEN [kind |-> "no-edge", edge |-> NullIndex]
             ELSE IF ~isStraight(nodeAt(k).anchor, nodeAt(nextIndex(k)).anchor,
                                 nodeAt(k).ctrl2, nodeAt(nextIndex(k)).ctrl1)
                  THEN [kind |-> "not-straight", edge |-> k]
                  ELSE [kind |-> "ok", edge |-> k]

\* handleSymmetryEdgePick: every node of the result is a new object.
handleSymmetryEdgePick(point) ==
    \E out \in {symmetryOutcome(point)} :
        /\ symmetryState' = "inactive"
        /\ IF out.kind = "ok"
           THEN \E vals \in {combinedNodes(out.edge)} :
                    /\ updateStateAndHistory(heap \o vals,
                                             [i \in 1..Len(vals) |-> Len(heap) + i], TRUE)
                    /\ last' = "symmetry-ok"
           ELSE /\ UNCHANGED <<heap, nodes, isPathClosed, history, historyIndex>>
                /\ commit' = <<>>
                /\ last' = IF out.kind = "not-straight" THEN "symmetry-not-straight"
                           ELSE "symmetry-not-eligible"

\* ------------------------------------------------------------- pointer down
zoom == viewState.zoom

\* A hit test that takes the handles of an open path as well.
hitRole_openHandles(point, i) ==
    IF LessThanOverZoom(DistSq(point, nodeAt(i).anchor), ANCHOR_HIT, zoom) THEN "anchor"
    ELSE IF LessThanOverZoom(DistSq(point, nodeAt(i).ctrl1), HANDLE_HIT, zoom) THEN "ctrl1"
    ELSE IF LessThanOverZoom(DistSq(point, nodeAt(i).ctrl2), HANDLE_HIT, zoom) THEN "ctrl2"
    ELSE "null"

\* What a pointer-down at `point' hits on node i: its anchor, or, on a closed
\* path, one of its handles.
hitRole(point, i) ==
    IF LessThanOverZoom(DistSq(point, nodeAt(i).anchor), ANCHOR_HIT, zoom) THEN "anchor"
    ELSE IF isPathClosed /\ LessThanOverZoom(DistSq(point, nodeAt(i).ctrl1), HANDLE_HIT, zoom)
         THEN "ctrl1"
    ELSE IF isPathClosed /\ LessThanOverZoom(DistSq(point, nodeAt(i).ctrl2), HANDLE_HIT, zoom)
         THEN "ctrl2"
    ELSE "null"

\* The loop runs from the last node down: the hit of greatest index wins.
hitTarget(point) ==
    LET hits == {i \in 0..(Len(nodes) - 1) : hitRole(point, i) # "null"}
    IN  IF hits = {} THEN NoDrag
        ELSE LET i == CHOOSE h \in hits : \A g \in hits : g <= h
             IN  Drag(i, hitRole(point, i))

\* A search that takes the last-to-first segment of an open path as well.
insertSegment_wrapAlways(point) ==
    IF Len(nodes) = 0 THEN [index |-> NullIndex, t |-> 0]
    ELSE closestSegment(point, Len(nodes), INSERT_THRESHOLD)

\* bestInsertPos: the segment to insert on and the parameter, index NullIndex
\* when no segment is near enough.
insertSegment(point) ==
    IF Len(nodes) = 0 THEN [index |-> NullIndex, t |-> 0]
    ELSE closestSegment(point, IF isPathClosed THEN Len(nodes) ELSE Len(nodes) - 1,
                        INSERT_THRESHOLD)

\* De Casteljau at t on segment `index'.
splitSegment(index, t) ==
    LET p0 == nodeAt(index).anchor
        p1 == nodeAt(index).ctrl2
        p2 == nodeAt(nextIndex(index)).ctrl1
        p3 == nodeAt(nextIndex(index)).anchor
        p01 == Lerp(t, p0, p1)
        p12 == Lerp(t, p1, p2)
        p23 == Lerp(t, p2, p3)
        p012 == Lerp(t, p01, p12)
        p123 == Lerp(t, p12, p23)
    IN  [p01 |-> p01, p23 |-> p23,
         newNode |-> mkNode(Lerp(t, p012, p123), p012, p123, "smooth")]

\* Lines 414-416: the array is copied, the two node objects are written in place.
insertWrites(index, split) ==
    [heap EXCEPT ![nodes[index + 1]].ctrl2 = split.p01,
                 ![nodes[nextIndex(index) + 1]].ctrl1 = split.p23]

insertNode(index, t) ==
    \E split \in {splitSegment(index, t)} :
    LET h1 == insertWrites(index, split) \o <<split.newNode>>
        newNodes == SubSeq(nodes, 1, index + 1) \o <<Len(h1)>>
                    \o SubSeq(nodes, index + 2, Len(nodes))
    IN  /\ updateStateAndHistory(h1, newNodes, isPathClosed)
        /\ selectedNodeIndex' = index + 1
        /\ draggedInfo' = Drag(index + 1, "anchor")

\* A pick that leaves the gesture a plain click.
pickEdge_plainClick(point) ==
    /\ handleSymmetryEdgePick(point)
    /\ wasDragging' = FALSE
    /\ UNCHANGED <<draggedInfo, selectedNodeIndex>>

\* Lines 337-343: the pointer-down of picking-edge mode.
pickEdge(point) ==
    /\ handleSymmetryEdgePick(point)
    /\ wasDragging' = TRUE
    /\ UNCHANGED <<draggedInfo, selectedNodeIndex>>

handleMouseDown(point, client) ==
    /\ ~crashed
    /\ pointer = <<>>
    /\ pointer' = <<point>>
    /\ UNCHANGED <<isSnapEnabled, viewState, isSpacePressed, crashed>>
    /\ IF isSpacePressed
       THEN /\ isPanning' = TRUE
            /\ panStartPos' = <<client>>
            /\ last' = "down-pan"
            /\ UNCHANGED <<heap, nodes, isPathClosed, draggedInfo, selectedNodeIndex,
                           symmetryState, wasDragging, mouseDownPos, history, historyIndex>>
            /\ commit' = <<>>
       ELSE /\ mouseDownPos' = <<point>>
            /\ UNCHANGED <<isPanning, panStartPos>>
            /\ IF symmetryState = "picking-edge"
               THEN pickEdge(point)
               ELSE /\ wasDragging' = FALSE
                    /\ UNCHANGED symmetryState
                    /\ \E hit \in {hitTarget(point)}, pos \in {insertSegment(point)} :
                           IF hit # NoDrag
                           THEN /\ draggedInfo' = hit
                                /\ selectedNodeIndex' = hit.index
                                /\ last' = "down-hit"
                                /\ UNCHANGED <<heap, nodes, isPathClosed, history, historyIndex>>
                                /\ commit' = <<>>
                           ELSE IF pos.index # NullIndex
                           THEN /\ insertNode(pos.index, pos.t)
                                /\ last' = "down-insert"
                           ELSE /\ draggedInfo' = NoDrag
                                /\ selectedNodeIndex' = NullIndex
                                /\ last' = "down-empty"
                                /\ UNCHANGED <<heap, nodes, isPathClosed, history,
                                               historyIndex>>
                                /\ commit' = <<>>

\* ------------------------------------------------------------- pointer move
\* A drag that mirrors the dragged handle of a smooth node through its anchor.
movedNode_mirror(node, role, snappedPoint) ==
    LET dx == snappedPoint.x - node.anchor.x
        dy == snappedPoint.y - node.anchor.y
        mirror == Pt(node.anchor.x - dx, node.anchor.y - dy)
    IN  IF role = "anchor"
        THEN [node EXCEPT !.anchor = snappedPoint,
                          !.ctrl1 = Pt(node.ctrl1.x + dx, node.ctrl1.y + dy),
                          !.ctrl2 = Pt(node.ctrl2.x + dx, node.ctrl2.y + dy)]
        ELSE IF role = "ctrl1"
        THEN [node EXCEPT !.ctrl1 = snappedPoint,
                          !.ctrl2 = IF node.type = "smooth" THEN mirror ELSE node.ctrl2]
        ELSE [node EXCEPT !.ctrl2 = snappedPoint,
                          !.ctrl1 = IF node.type = "smooth" THEN mirror ELSE node.ctrl1]

\* The node a drag to snappedPoint makes of `node'.
movedNode(node, role, snappedPoint) ==
    IF role = "anchor"
    THEN LET dx == snappedPoint.x - node.anchor.x
             dy == snappedPoint.y - node.anchor.y
         IN  [node EXCEPT !.anchor = snappedPoint,
                          !.ctrl1 = Pt(node.ctrl1.x + dx, node.ctrl1.y + dy),
                          !.ctrl2 = Pt(node.ctrl2.x + dx, node.ctrl2.y + dy)]
    ELSE IF role = "ctrl1"
    THEN [node EXCEPT !.ctrl1 = snappedPoint,
                      !.ctrl2 = IF node.type = "smooth"
                                THEN OppositeHandle(node.anchor, snappedPoint, node.ctrl2)
                                ELSE node.ctrl2]
    ELSE [node EXCEPT !.ctrl2 = snappedPoint,
                      !.ctrl1 = IF node.type = "smooth"
                                THEN OppositeHandle(node.anchor, snappedPoint, node.ctrl1)
                                ELSE node.ctrl1]

\* A drag that moves an anchor and leaves its handles where they are.
dragMove_anchorOnly(point) ==
    LET index == draggedInfo.index
        role == draggedInfo.type
    IN  IF index < Len(nodes)
        THEN LET moved == movedNode(nodeAt(index), role, snapPoint(isSnapEnabled, point))
                 h1 == heap \o <<IF role = "anchor"
                                 THEN [nodeAt(index) EXCEPT !.anchor = moved.anchor]
                                 ELSE moved>>
             IN  /\ SetPath(h1, [nodes EXCEPT ![index + 1] = Len(h1)], history)
                 /\ last' = "move-drag"
                 /\ UNCHANGED crashed
        ELSE /\ UNCHANGED <<heap, nodes, history>>
             /\ crashed' = (role # "anchor")
             /\ last' = IF role = "anchor" THEN "move-throw" ELSE "move-crash"

\* Lines 447-478 with a drag target.  A target index past the array reads
\* undefined: for an anchor the handler throws at node.anchor.x, for a handle
\* it stores a node without anchor and the next render throws.
dragMove(point) ==
    LET index == draggedInfo.index
        role == draggedInfo.type
    IN  IF index < Len(nodes)
        THEN LET h1 == heap \o <<movedNode(nodeAt(index), role, snapPoint(isSnapEnabled, point))>>
             IN  /\ SetPath(h1, [nodes EXCEPT ![index + 1] = Len(h1)], history)
                 /\ last' = "move-drag"
                 /\ UNCHANGED crashed
        ELSE /\ UNCHANGED <<heap, nodes, history>>
             /\ crashed' = (role # "anchor")
             /\ last' = IF role = "anchor" THEN "move-throw" ELSE "move-crash"

\* A pan that divides the device-space delta by the zoom.
handleMouseMove_scaledPan(point, client) ==
    /\ ~crashed
    /\ pointer # <<>>
    /\ pointer' = <<point>>
    /\ UNCHANGED <<isPathClosed, draggedInfo, selectedNodeIndex, isSnapEnabled, isPanning,
                   isSpacePressed, symmetryState, mouseDownPos, historyIndex>>
    /\ commit' = <<>>
    /\ IF isPanning /\ panStartPos # <<>>
       THEN /\ viewState' = [viewState EXCEPT
                                !.pan = Pt(viewState.pan.x
                                             + RDiv((client.x - panStartPos[1].x) * ZOOM_UNIT, zoom),
                                           viewState.pan.y
                                             + RDiv((client.y - panStartPos[1].y) * ZOOM_UNIT, zoom))]
            /\ panStartPos' = <<client>>
            /\ last' = "move-pan"
            /\ UNCHANGED <<heap, nodes, history, wasDragging, crashed>>
       ELSE /\ UNCHANGED <<viewState, panStartPos>>
            /\ IF mouseDownPos = <<>>
               THEN /\ last' = "move-idle"
                    /\ UNCHANGED <<heap, nodes, history, wasDragging, crashed>>
               ELSE /\ wasDragging' =
                          (wasDragging \/ MoreThanOverZoom(DistSq(point, mouseDownPos[1]),
                                                           DRAG_THRESHOLD, zoom))
                    /\ IF draggedInfo = NoDrag
                       THEN /\ last' = "move-free"
                            /\ UNCHANGED <<heap, nodes, history, crashed>>
                       ELSE dragMove(point)

handleMouseMove(point, client) ==
    /\ ~crashed
    /\ pointer # <<>>
    /\ pointer' = <<point>>
    /\ UNCHANGED <<isPathClosed, draggedInfo, selectedNodeIndex, isSnapEnabled, isPanning,
                   isSpacePressed, symmetryState, mouseDownPos, historyIndex>>
    /\ commit' = <<>>
    /\ IF isPanning /\ panStartPos # <<>>
       THEN /\ viewState' = [viewState EXCEPT
                                !.pan = Pt(viewState.pan.x + client.x - panStartPos[1].x,
                                           viewState.pan.y + client.y - panStartPos[1].y)]
            /\ panStartPos' = <<client>>
            /\ last' = "move-pan"
            /\ UNCHANGED <<heap, nodes, history, wasDragging, crashed>>
       ELSE /\ UNCHANGED <<viewState, panStartPos>>
            /\ IF mouseDownPos = <<>>
               THEN /\ last' = "move-idle"
                    /\ UNCHANGED <<heap, nodes, history, wasDragging, crashed>>
               ELSE /\ wasDragging' =
                          (wasDragging \/ MoreThanOverZoom(DistSq(point, mouseDownPos[1]),
                                                           DRAG_THRESHOLD, zoom))
                    /\ IF draggedInfo = NoDrag
                       THEN /\ last' = "move-free"
                            /\ UNCHANGED <<heap, nodes, history, crashed>>
                       ELSE dragMove(point)

\* --------------------------------------------------------------- pointer up
\* Lines 494-514, by value: the path `vals' with a node appended at sp, the
\* previous last node rewritten with its ctrl2 along the new segment.
appendValues(vals, sp) ==
    LET n == Len(vals)
    IN  IF n = 0
        THEN <<mkNode(sp, Pt(sp.x - DEFAULT_HANDLE, sp.y), Pt(sp.x + DEFAULT_HANDLE, sp.y),
                      "corner")>>
        ELSE LET prevNode == vals[n]
                 updatedPrevNode ==
                     [prevNode EXCEPT !.ctrl2 = AlongFraction(prevNode.anchor, prevNode.anchor,
                                                              sp, 1, SMOOTHING_DIV)]
                 newNode == mkNode(sp,
                                   AlongFraction(sp, prevNode.anchor, sp, 0 - 1, SMOOTHING_DIV),
                                   Pt(sp.x + DEFAULT_HANDLE, sp.y), "corner")
             IN  SubSeq(vals, 1, n - 1) \o <<updatedPrevNode, newNode>>

\* The same on the live array: the new node and the rewritten previous node
\* are new objects, the other nodes are shared with the array copied.
appendNode(point) ==
    LET n == Len(nodes)
        vals == appendValues(liveNodes, snapPoint(isSnapEnabled, point))
    IN  IF n = 0
        THEN [heap |-> heap \o vals, nodes |-> <<Len(heap) + 1>>]
        ELSE [heap |-> heap \o SubSeq(vals, n, n + 1),
              nodes |-> SubSeq(nodes, 1, n - 1) \o <<Len(heap) + 1, Len(heap) + 2>>]

handleMouseUp(ctrlKey) ==
    /\ ~crashed
    /\ pointer # <<>>
    /\ pointer' = <<>>
    /\ isPanning' = FALSE
    /\ panStartPos' = IF isPanning THEN <<>> ELSE panStartPos
    /\ draggedInfo' = NoDrag
    /\ mouseDownPos' = <<>>
    /\ UNCHANGED <<isSnapEnabled, viewState, isSpacePressed, symmetryState, wasDragging, crashed>>
    /\ IF draggedInfo # NoDrag
       THEN /\ updateStateAndHistory(heap, nodes, isPathClosed)
            /\ last' = "up-release"
            /\ UNCHANGED selectedNodeIndex
       ELSE IF ~wasDragging /\ ~ctrlKey /\ ~isSpacePressed
       THEN \E app \in {appendNode(pointer[1])} :
                /\ updateStateAndHistory(app.heap, app.nodes, isPathClosed)
                /\ selectedNodeIndex' = Len(app.nodes) - 1
                /\ last' = "up-append"
       ELSE /\ last' = "up-none"
            /\ UNCHANGED <<heap, nodes, isPathClosed, selectedNodeIndex, history, historyIndex>>
            /\ commit' = <<>>

\* A leave that drops the drag target without committing the dragged path.
handleMouseLeave_noCommit(held) ==
    /\ ~crashed
    /\ pointer' = IF held THEN pointer ELSE <<>>
    /\ draggedInfo' = NoDrag
    /\ mouseDownPos' = <<>>
    /\ isPanning' = FALSE
    /\ panStartPos' = <<>>
    /\ UNCHANGED <<selectedNodeIndex, isSnapEnabled, viewState, isSpacePressed, symmetryState,
                   wasDragging, crashed>>
    /\ last' = IF draggedInfo # NoDrag THEN "leave-release" ELSE "leave-none"
    /\ UNCHANGED <<heap, nodes, isPathClosed, history, historyIndex>>
    /\ commit' = <<>>

\* `held': whether the button is still down when the pointer comes back.
handleMouseLeave(held) ==
    /\ ~crashed
    /\ pointer' = IF held THEN pointer ELSE <<>>
    /\ draggedInfo' = NoDrag
    /\ mouseDownPos' = <<>>
    /\ isPanning' = FALSE
    /\ panStartPos' = <<>>
    /\ UNCHANGED <<selectedNodeIndex, isSnapEnabled, viewState, isSpacePressed, symmetryState,
                   wasDragging, crashed>>
    /\ IF draggedInfo # NoDrag
       THEN /\ updateStateAndHistory(heap, nodes, isPathClosed)
            /\ last' = "leave-release"
       ELSE /\ last' = "leave-none"
            /\ UNCHANGED <<heap, nodes, isPathClosed, history, historyIndex>>
            /\ commit' = <<>>

\* ------------------------------------------------------------------ history
\* An undo that moves the index and shows the entry it leaves.
undo_showsCurrent ==
    /\ ~crashed
    /\ UNCHANGED <<draggedInfo, selectedNodeIndex, isSnapEnabled, viewState, isPanning,
                   isSpacePressed, symmetryState, wasDragging, mouseDownPos, panStartPos,
                   crashed, pointer>>
    /\ commit' = <<>>
    /\ IF historyIndex > 0
       THEN /\ historyIndex' = historyIndex - 1
            /\ SetPath(heap, history[historyIndex + 1].nodes, history)
            /\ isPathClosed' = history[historyIndex + 1].isPathClosed
            /\ last' = "undo"
       ELSE /\ last' = "undo-none"
            /\ UNCHANGED <<heap, nodes, isPathClosed, history, historyIndex>>

undo ==
    /\ ~crashed
    /\ UNCHANGED <<draggedInfo, selectedNodeIndex, isSnapEnabled, viewState, isPanning,
                   isSpacePressed, symmetryState, wasDragging, mouseDownPos, panStartPos,
                   crashed, pointer>>
    /\ IF historyIndex > 0
       THEN /\ historyIndex' = historyIndex - 1
            /\ SetPath(heap, history[historyIndex].nodes, history)
            /\ isPathClosed' = history[historyIndex].isPathClosed
            /\ commit' = <<>>
            /\ last' = "undo"
       ELSE /\ last' = "undo-none"
            /\ UNCHANGED <<heap, nodes, isPathClosed, history, historyIndex>>
            /\ commit' = <<>>

\* A redo that moves the index and leaves the live path as it is.
redo_indexOnly ==
    /\ ~crashed
    /\ UNCHANGED <<draggedInfo, selectedNodeIndex, isSnapEnabled, viewState, isPanning,
                   isSpacePressed, symmetryState, wasDragging, mouseDownPos, panStartPos,
                   crashed, pointer>>
    /\ commit' = <<>>
    /\ IF historyIndex < Len(history) - 1
       THEN /\ historyIndex' = historyIndex + 1
            /\ last' = "redo"
       ELSE /\ historyIndex' = historyIndex
            /\ last' = "redo-none"
    /\ UNCHANGED <<heap, nodes, isPathClosed, history>>

redo ==
    /\ ~crashed
    /\ UNCHANGED <<draggedInfo, selectedNodeIndex, isSnapEnabled, viewState, isPanning,
                   isSpacePressed, symmetryState, wasDragging, mouseDownPos, panStartPos,
                   crashed, pointer>>
    /\ IF historyIndex < Len(history) - 1
       THEN /\ historyIndex' = historyIndex + 1
            /\ SetPath(heap, history[historyIndex + 2].nodes, history)
            /\ isPathClosed' = history[historyIndex + 2].isPathClosed
            /\ commit' = <<>>
            /\ last' = "redo"
       ELSE /\ last' = "redo-none"
            /\ UNCHANGED <<heap, nodes, isPathClosed, history, historyIndex>>
            /\ commit' = <<>>

\* ----------------------------------------------------------------- commands
\* nodes.filter((_, i) => i !== selectedNodeIndex)
withoutIndex(ns, k) ==
    IF k < Len(ns) THEN SubSeq(ns, 1, k) \o SubSeq(ns, k + 2, Len(ns)) ELSE ns

\* A delete that keeps the closed flag.
closedAfterDelete_keeps(newNodes) == isPathClosed

\* newNodes.length < 3 ? false : isPathClosed
closedAfterDelete(newNodes) == IF Len(newNodes) < 3 THEN FALSE ELSE isPathClosed

deleteSelectedNode ==
    /\ ~crashed
    /\ UNCHANGED <<draggedInfo, isSnapEnabled, viewState, isPanning, isSpacePressed,
                   symmetryState, wasDragging, mouseDownPos, panStartPos, crashed, pointer>>
    /\ IF selectedNodeIndex # NullIndex
       THEN LET newNodes == withoutIndex(nodes, selectedNodeIndex)
            IN  /\ updateStateAndHistory(heap, newNodes, closedAfterDelete(newNodes))
                /\ selectedNodeIndex' = NullIndex
                /\ last' = "delete"
       ELSE /\ last' = "delete-none"
            /\ UNCHANGED <<heap, nodes, isPathClosed, selectedNodeIndex, history, historyIndex>>
            /\ commit' = <<>>

\* A closing that also makes the two end nodes smooth.
closedNodes_smooths ==
    LET n == Len(nodes)
        firstNode == nodeAt(0)
        lastNode == nodeAt(n - 1)
        updatedLastNode ==
            [lastNode EXCEPT !.ctrl2 = AlongFraction(lastNode.anchor, lastNode.anchor,
                                                     firstNode.anchor, 1, SMOOTHING_DIV),
                             !.type = "smooth"]
        updatedFirstNode ==
            [firstNode EXCEPT !.ctrl1 = AlongFraction(firstNode.anchor, lastNode.anchor,
                                                      firstNode.anchor, 0 - 1, SMOOTHING_DIV),
                              !.type = "smooth"]
        h1 == heap \o <<updatedFirstNode, updatedLastNode>>
    IN  [heap |-> h1,
         nodes |-> [[nodes EXCEPT ![1] = Len(heap) + 1] EXCEPT ![n] = Len(heap) + 2]]

\* Lines 616-638; the button is disabled while nodes.length < 3 (line 704).
closedNodes ==
    LET n == Len(nodes)
        firstNode == nodeAt(0)
        lastNode == nodeAt(n - 1)
        updatedLastNode ==
            [lastNode EXCEPT !.ctrl2 = AlongFraction(lastNode.anchor, lastNode.anchor,
                                                     firstNode.anchor, 1, SMOOTHING_DIV)]
        updatedFirstNode ==
            [firstNode EXCEPT !.ctrl1 = AlongFraction(firstNode.anchor, lastNode.anchor,
                                                      firstNode.anchor, 0 - 1, SMOOTHING_DIV)]
        h1 == heap \o <<updatedFirstNode, updatedLastNode>>
    IN  [heap |-> h1,
         nodes |-> [[nodes EXCEPT ![1] = Len(heap) + 1] EXCEPT ![n] = Len(heap) + 2]]

toggleClosePath ==
    /\ ~crashed
    /\ Len(nodes) >= 3
    /\ UNCHANGED <<draggedInfo, selectedNodeIndex, isSnapEnabled, viewState, isPanning,
                   isSpacePressed, symmetryState, wasDragging, mouseDownPos, panStartPos,
                   crashed, pointer>>
    /\ IF ~isPathClosed /\ Len(nodes) >= 2
       THEN \E c \in {closedNodes} : updateStateAndHistory(c.heap, c.nodes, TRUE)
       ELSE updateStateAndHistory(heap, nodes, ~isPathClosed)
    /\ last' = IF isPathClosed THEN "open" ELSE "close"

clearCanvas ==
    /\ ~crashed
    /\ updateStateAndHistory(heap, <<>>, FALSE)
    /\ selectedNodeIndex' = NullIndex
    /\ last' = "clear"
    /\ UNCHANGED <<draggedInfo, isSnapEnabled, viewState, isPanning, isSpacePressed,
                   symmetryState, wasDragging, mouseDownPos, panStartPos, crashed, pointer>>

\* The button is disabled while nodes.length < 3 or the path is open (line 705).
toggleApplySymmetry ==
    /\ ~crashed
    /\ Len(nodes) >= 3 /\ isPathClosed
    /\ IF symmetryState = "inactive"
       THEN /\ symmetryState' = "picking-edge"
            /\ selectedNodeIndex' = NullIndex
            /\ last' = "symmetry-on"
       ELSE /\ symmetryState' = "inactive"
            /\ last' = "symmetry-off"
            /\ UNCHANGED selectedNodeIndex
    /\ UNCHANGED <<heap, nodes, isPathClosed, draggedInfo, isSnapEnabled, viewState, isPanning,
                   isSpacePressed, wasDragging, mouseDownPos, panStartPos, history,
                   historyIndex, crashed, pointer>>
    /\ commit' = <<>>

\* handleKeyDown / handleKeyUp for the space key.
spaceKeyDown ==
    /\ ~crashed
    /\ ~isSpacePressed
    /\ isSpacePressed' = TRUE
    /\ last' = "space-down"
    /\ UNCHANGED <<heap, nodes, isPathClosed, draggedInfo, selectedNodeIndex, isSnapEnabled,
                   viewState, isPanning, symmetryState, wasDragging, mouseDownPos,
                   panStartPos, history, historyIndex, crashed, pointer>>
    /\ commit' = <<>>

spaceKeyUp ==
    /\ ~crashed
    /\ isSpacePressed
    /\ isSpacePressed' = FALSE
    /\ isPanning' = FALSE
    /\ last' = "space-up"
    /\ UNCHANGED <<heap, nodes, isPathClosed, draggedInfo, selectedNodeIndex, isSnapEnabled,
                   viewState, symmetryState, wasDragging, mouseDownPos, panStartPos,
                   history, historyIndex, crashed, pointer>>
    /\ commit' = <<>>

toggleSnap ==
    /\ ~crashed
    /\ isSnapEnabled' = ~isSnapEnabled
    /\ last' = "snap"
    /\ UNCHANGED <<heap, nodes, isPathClosed, draggedInfo, selectedNodeIndex, viewState,
                   isPanning, isSpacePressed, symmetryState, wasDragging, mouseDownPos,
                   panStartPos, history, historyIndex, crashed, pointer>>
    /\ commit' = <<>>

\* --------------------------------------------------------------------- zoom
MIN_ZOOM == 100
MAX_ZOOM == 10000

\* A clamp that lets every zoom through.
clampZoom_unbounded(z) == z

clampZoom(z) == IF z < MIN_ZOOM THEN MIN_ZOOM ELSE IF z > MAX_ZOOM THEN MAX_ZOOM ELSE z

\* zoom * 1.1 when deltaY < 0 (zoomIn), zoom / 1.1 otherwise, then clamped.
wheelZoom(zoomIn) == clampZoom(IF zoomIn THEN RDiv(zoom * 11, 10) ELSE RDiv(zoom * 10, 11))

handleWheel(zoomIn, mouse) ==
    /\ ~crashed
    /\ IF wheelZoom(zoomIn) = zoom
       THEN /\ last' = "wheel-none"
            /\ UNCHANGED viewState
       ELSE /\ viewState' =
                  [zoom |-> wheelZoom(zoomIn),
                   pan |-> Pt(mouse.x - RDiv((mouse.x - viewState.pan.x) * wheelZoom(zoomIn), zoom),
                              mouse.y - RDiv((mouse.y - viewState.pan.y) * wheelZoom(zoomIn), zoom))]
            /\ last' = "wheel"
    /\ UNCHANGED <<heap, nodes, isPathClosed, draggedInfo, selectedNodeIndex, isSnapEnabled,
                   isPanning, isSpacePressed, symmetryState, wasDragging, mouseDownPos,
                   panStartPos, history, historyIndex, crashed, pointer>>
    /\ commit' = <<>>

\* ---------------------------------------------------------------- rendering
\* The path-description string, command by command: each command is its
\* letter and its numbers in the order in which they are written.
Command(letter, args) == [cmd |-> letter, args |-> args]

\* The cubic command of line 685 for the segment from node1 to node2.
curveTo(node1, node2) ==
    Command("C", <<node1.ctrl2.x, node1.ctrl2.y, node2.ctrl1.x, node2.ctrl1.y,
                   node2.anchor.x, node2.anchor.y>>)

\* The loop of lines 682-686 from index i on.
RECURSIVE curveCommands(_, _, _)
curveCommands(pathNodes, i, count) ==
    IF i >= count THEN <<>>
    ELSE <<curveTo(pathNodes[i + 1], pathNodes[((i + 1) % Len(pathNodes)) + 1])>>
         \o curveCommands(pathNodes, i + 1, count)

\* A path description that never writes the last-to-first segment.
generatePathData_noWrap(pathNodes, closed) ==
    IF Len(pathNodes) = 0 THEN <<>>
    ELSE <<Command("M", <<pathNodes[1].anchor.x, pathNodes[1].anchor.y>>)>>
         \o curveCommands(pathNodes, 0, Len(pathNodes) - 1)
         \o (IF closed THEN <<Command("Z", <<>>)>> ELSE <<>>)

generatePathData(pathNodes, closed) ==
    IF Len(pathNodes) = 0 THEN <<>>
    ELSE <<Command("M", <<pathNodes[1].anchor.x, pathNodes[1].anchor.y>>)>>
         \o curveCommands(pathNodes, 0, IF closed THEN Len(pathNodes) ELSE Len(pathNodes) - 1)
         \o (IF closed THEN <<Command("Z", <<>>)>> ELSE <<>>)

\* Line 693: the description of the live path, which every render shows.
pathData == generatePathData(liveNodes, isPathClosed)

\* ------------------------------------------------------------ specification
Next ==
    \/ \E point \in Pts \cup PlanPts, client \in ClientPts \cup PlanClients :
          Step(Ev("down", point, client, FALSE), handleMouseDown(point, client))
    \/ \E point \in Pts \cup PlanPts, client \in ClientPts \cup PlanClients :
          Step(Ev("move", point, client, FALSE), handleMouseMove(point, client))
    \/ \E ctrlKey \in BOOLEAN : Step(Ev("up", Origin, Origin, ctrlKey), handleMouseUp(ctrlKey))
    \/ \E held \in BOOLEAN : Step(Ev("leave", Origin, Origin, held), handleMouseLeave(held))
    \/ Step(Cmd("undo"), undo)
    \/ Step(Cmd("redo"), redo)
    \/ Step(Cmd("delete"), deleteSelectedNode)
    \/ Step(Cmd("close"), toggleClosePath)
    \/ Step(Cmd("clear"), clearCanvas)
    \/ Step(Cmd("symmetry"), toggleApplySymmetry)
    \/ Step(Cmd("space-down"), spaceKeyDown)
    \/ Step(Cmd("space-up"), spaceKeyUp)
    \/ Step(Cmd("snap"), toggleSnap)
    \/ \E zoomIn \in BOOLEAN, mouse \in ClientPts :
          Step(Ev("wheel", Origin, mouse, zoomIn), handleWheel(zoomIn, mouse))

Spec == Init /\ [][Next]_vars

\* =================================================================== claims
\* The live path and the history by value, and steps told by what they do.
pathUnchanged == liveNodes' = liveNodes /\ isPathClosed' = isPathClosed
historyUnchanged == historyValues' = historyValues /\ historyIndex' = historyIndex
liveEntry == [nodes |-> liveNodes, isPathClosed |-> isPathClosed]

\* The handler that ran in a step.
isPointerDown == pointer = <<>> /\ pointer' # <<>>
isPointerMove == last' \in {"move-pan", "move-idle", "move-free", "move-drag", "move-throw",
                            "move-crash"}
isPointerUp == last' \in {"up-release", "up-append", "up-none"}
isPointerLeave == last' \in {"leave-release", "leave-none"}
isUndo == last' \in {"undo", "undo-none"}
isRedo == last' \in {"redo", "redo-none"}

\* The edge nearest to `point' and whether both its handles lie on its chord.
nearestEdge(point) == closestSegment(point, Len(nodes), Infinity).index
edgeCollinear(k) ==
    LET A == nodeAt(k)
        B == nodeAt(nextIndex(k))
    IN  /\ Cross(A.anchor, B.anchor, A.ctrl2) = 0
        /\ Cross(A.anchor, B.anchor, B.ctrl1) = 0
pickSucceeds(point) == isPathClosed /\ Len(nodes) >= 3 /\ edgeCollinear(nearestEdge(point))
\* A pointer-down that reaches the symmetry operation.
isPick == isPointerDown /\ symmetryState = "picking-edge" /\ ~isSpacePressed

\* ------------------------------------------------------------------------ C1
\* C1: every commit made on a history at index i leaves a history of length
\* i + 2 whose entries 0..i are the former entries 0..i, whose last entry is
\* the committed (nodes, closed), with the index at i + 1; the entries that
\* were after i are gone, so a redo right after a commit changes nothing.
C1_CommitTruncatesAndAppends ==
    /\ [](commit # <<>> =>
            LET c == commit[1]
            IN  /\ Len(history) = c.historyIndex + 2
                /\ \A j \in 1..(c.historyIndex + 1) : historyValues[j] = c.history[j]
                /\ historyValues[Len(history)] = [nodes |-> c.nodes,
                                                  isPathClosed |-> c.isPathClosed]
                /\ historyIndex = c.historyIndex + 1)
    /\ [][commit # <<>> /\ isRedo => pathUnchanged /\ historyUnchanged]_vars

\* A commit made after an undo: entries after the index were there to discard.
C1_Witness ==
    /\ commit # <<>>
    /\ Len(commit[1].history) > commit[1].historyIndex + 1
    /\ Len(history) = commit[1].historyIndex + 2

\* ------------------------------------------------------------------------ C2
\* C2: the history is never empty and 0 <= historyIndex <= length - 1; undo at
\* index 0 and redo at the last index change nothing; otherwise undo lowers
\* and redo raises the index by exactly one, the history stays as it is, and
\* the live (nodes, closed) become those of the entry at the new index.
C2_UndoRedoWithinBounds ==
    /\ [](Len(history) >= 1 /\ 0 <= historyIndex /\ historyIndex <= Len(history) - 1)
    /\ [][/\ isUndo =>
               IF historyIndex = 0 THEN pathUnchanged /\ historyUnchanged
               ELSE /\ historyIndex' = historyIndex - 1
                    /\ historyValues' = historyValues
                    /\ liveEntry' = historyValues[historyIndex]
          /\ isRedo =>
               IF historyIndex = Len(history) - 1 THEN pathUnchanged /\ historyUnchanged
               ELSE /\ historyIndex' = historyIndex + 1
                    /\ historyValues' = historyValues
                    /\ liveEntry' = historyValues[historyIndex + 2]]_vars

\* An undo at index 0 of a history that has entries to redo.
C2_Witness ==
    /\ last = "undo-none"
    /\ historyIndex = 0
    /\ Len(history) >= 2
    /\ nodes = <<>>

\* ------------------------------------------------------------------------ C3
\* The path N plain clicks of a scenario build, by value.
RECURSIVE appendedPath(_)
appendedPath(n) ==
    IF n = 0 THEN <<>> ELSE appendValues(appendedPath(n - 1), ClickPt(n - 1))

\* C3: from the initial state, after N plain clicks (N append commits) N undos
\* make the live path the empty open path, and N redos then make the live
\* (nodes, closed) what they were right after the N-th append.
C3_UndoAllRedoAll ==
    \A n \in 1..MaxClicks :
        (scenario = AppendUndoRedo(n) /\ free = 0) =>
            /\ Len(plan) = 2 * n =>
                  /\ liveEntry = [nodes |-> appendedPath(n), isPathClosed |-> FALSE]
                  /\ historyIndex = n
            /\ Len(plan) = n => liveEntry = [nodes |-> <<>>, isPathClosed |-> FALSE]
            /\ Len(plan) = 0 =>
                  liveEntry = [nodes |-> appendedPath(n), isPathClosed |-> FALSE]

\* The longest scenario played to its end.
C3_Witness ==
    /\ scenario = AppendUndoRedo(MaxClicks)
    /\ plan = <<>>
    /\ free = 0
    /\ last = "redo"
    /\ Len(nodes) = MaxClicks
    /\ historyIndex = MaxClicks

\* ------------------------------------------------------------------------ C4
\* C4: history entries are immutable: an entry that stays in the history
\* keeps the anchor, ctrl1, ctrl2 and kind of each of its nodes and its closed
\* flag through every later operation.
C4_HistoryEntriesImmutable ==
    [][\A j \in 1..Len(history) :
          (j <= Len(history') /\ (commit' = <<>> \/ j <= historyIndex + 1))
              => historyValues'[j] = historyValues[j]]_vars

\* ------------------------------------------------------------------------ C5
\* C5: during a drag pointer-moves never change the history or the index; the
\* release (pointer-up or pointer-leave) adds exactly one entry, equal to the
\* live (nodes, closed) at release, and clears the drag target, so that a
\* pointer-leave after the pointer-up, or the pointer-up after a
\* pointer-leave, adds no second entry.
C5_DragCommitsOnce ==
    [][/\ (draggedInfo # NoDrag /\ isPointerMove) => historyUnchanged
       /\ (draggedInfo # NoDrag /\ (isPointerUp \/ isPointerLeave)) =>
             /\ historyIndex' = historyIndex + 1
             /\ Len(history') = historyIndex + 2
             /\ historyValues'[Len(history')] = liveEntry
             /\ draggedInfo' = NoDrag
       /\ (draggedInfo = NoDrag /\ isPointerLeave) => historyUnchanged
       /\ (draggedInfo = NoDrag /\ gesture \in {"down-hit", "down-insert"} /\ isPointerUp)
             => historyUnchanged]_vars

\* ------------------------------------------------------------------------ C6
\* C6: a failing symmetry pick (path open, fewer than 3 nodes, or a handle of
\* the nearest segment off its chord) leaves nodes, closed flag, history and
\* index unchanged and sets the symmetry mode to inactive.
C6_FailingPickChangesNothing ==
    [][(isPick /\ ~pickSucceeds(pointer'[1])) =>
          /\ pathUnchanged
          /\ historyUnchanged
          /\ symmetryState' = "inactive"]_vars

\* A pick on the curved edge of a closed path.
C6_Witness ==
    /\ last = "symmetry-not-straight"
    /\ gesture = "symmetry-not-straight"
    /\ symmetryState = "inactive"
    /\ isPathClosed
    /\ commit = <<>>

\* ------------------------------------------------------------------------ C7
\* C7: a successful symmetry pick on a closed path of n >= 3 nodes yields a
\* closed path of 2n - 2 nodes and adds exactly one history entry; the closed
\* square of 4 nodes gives 6.
C7_PickDoublesIntermediates ==
    [][(isPick /\ pickSucceeds(pointer'[1])) =>
          /\ Len(nodes') = 2 * Len(nodes) - 2
          /\ isPathClosed'
          /\ historyIndex' = historyIndex + 1
          /\ Len(history') = historyIndex + 2
          /\ historyValues'[Len(history')] = liveEntry']_vars

\* The square mirrored.
C7_Witness ==
    /\ last = "symmetry-ok"
    /\ scenario = ClosedSquare \o <<Cmd("symmetry")>>
    /\ free = 1
    /\ Len(nodes) = 6
    /\ isPathClosed

\* ------------------------------------------------------------------------ C8
\* The sequence [A', M(Im), ..., M(I1), B', I1, ..., Im] for the axis edge k.
mergedPath(k) ==
    LET n == Len(nodes)
        m == n - 2
        A == nodeAt(k)
        B == nodeAt((k + 1) % n)
        I(j) == nodeAt((k + 1 + j) % n)
        R(p) == reflectPoint(A.anchor, B.anchor, p)
        M(node) == mkNode(R(node.anchor), R(node.ctrl2), R(node.ctrl1), node.type)
    IN  [i \in 1..(2 * m + 2) |->
            IF i = 1 THEN mkNode(A.anchor, A.ctrl1, R(A.ctrl1), "smooth")
            ELSE IF i <= m + 1 THEN M(I(m + 2 - i))
            ELSE IF i = m + 2 THEN mkNode(B.anchor, R(B.ctrl2), B.ctrl2, "smooth")
            ELSE I(i - m - 2)]

\* C8: a successful pick with axis nodes A = nodes[k], B = nodes[(k+1) mod n]
\* and intermediates I1..Im makes the node sequence exactly
\* [A', M(Im), ..., M(I1), B', I1, ..., Im]: M reflects every point and then
\* exchanges ctrl1 and ctrl2, A' and B' keep anchor and outer handle, take the
\* reflection of that handle as the inner one, and are smooth.
C8_PickBuildsMirroredSequence ==
    [][(isPick /\ pickSucceeds(pointer'[1])) =>
          liveNodes' = mergedPath(nearestEdge(pointer'[1]))]_vars

\* The triangle with one curved edge, mirrored across a straight one.
C8_Witness ==
    /\ last = "symmetry-ok"
    /\ scenario = CurvedTriangle \o <<Cmd("symmetry")>>
    /\ free = 1
    /\ Len(nodes) = 4
    /\ liveNodes[2].ctrl1 # liveNodes[2].ctrl2

\* ------------------------------------------------------------------------ C9
pickLabels == {"symmetry-ok", "symmetry-not-straight", "symmetry-not-eligible"}
\* The pointer-up that ends a gesture begun by a pick appends no node.
pickGestureEndsIdle ==
    (gesture \in pickLabels /\ pointer # <<>> /\ pointer' = <<>>)
        => pathUnchanged /\ historyUnchanged

\* C9 as stated: in picking-edge mode the next pointer-down invokes the
\* symmetry operation and leaves the mode inactive, sets no drag target, and
\* the pointer-up of the gesture appends no node.
C9_NextDownIsThePick ==
    [][/\ (isPointerDown /\ symmetryState = "picking-edge") =>
             /\ gesture' \in pickLabels
             /\ symmetryState' = "inactive"
             /\ draggedInfo' = NoDrag
       /\ pickGestureEndsIdle]_vars

\* C9, amended: the same of the next pointer-down made while space is not held.
C9_NextDownWithoutSpaceIsThePick ==
    [][/\ isPick =>
             /\ gesture' \in pickLabels
             /\ (commit' # <<>>) = pickSucceeds(pointer'[1])
             /\ symmetryState' = "inactive"
             /\ draggedInfo' = NoDrag
       /\ pickGestureEndsIdle]_vars

\* The square picked and the button released: six nodes and no seventh.
C9_Witness ==
    /\ scenario = ClosedSquare \o <<Cmd("symmetry")>>
    /\ free = 2
    /\ last = "up-none"
    /\ wasDragging
    /\ symmetryState = "inactive"
    /\ draggedInfo = NoDrag
    /\ Len(nodes) = 6

\* ----------------------------------------------------------------------- C10
\* C10: in every reachable state and in every history entry a closed path has
\* at least 3 nodes.
C10_ClosedPathHasThreeNodes ==
    /\ isPathClosed => Len(nodes) >= 3
    /\ \A j \in 1..Len(history) : history[j].isPathClosed => Len(history[j].nodes) >= 3

\* A closed triangle that lost a node: two nodes, open, after a closed entry.
C10_Witness ==
    /\ last = "delete"
    /\ Len(nodes) = 2
    /\ ~isPathClosed
    /\ history[historyIndex].isPathClosed
    /\ Len(history[historyIndex].nodes) = 3

\* ----------------------------------------------------------------------- C11
isDelete == last' \in {"delete", "delete-none"}

\* C11: the delete command with a node selected removes exactly the node at
\* the selected index, the other nodes keeping order and content, sets closed
\* to false when fewer than 3 nodes remain and leaves it otherwise, adds
\* exactly one history entry and clears the selection; with no node selected
\* it changes nothing.
C11_DeleteRemovesSelected ==
    [][isDelete =>
          IF selectedNodeIndex # NullIndex
          THEN /\ Len(nodes') = Len(nodes) - 1
               /\ \A i \in 1..Len(nodes') :
                     liveNodes'[i] = liveNodes[IF i <= selectedNodeIndex THEN i ELSE i + 1]
               /\ isPathClosed' = (IF Len(nodes') < 3 THEN FALSE ELSE isPathClosed)
               /\ historyIndex' = historyIndex + 1
               /\ Len(history') = historyIndex + 2
               /\ historyValues'[Len(history')] = liveEntry'
               /\ selectedNodeIndex' = NullIndex
          ELSE /\ pathUnchanged
               /\ historyUnchanged
               /\ selectedNodeIndex' = selectedNodeIndex]_vars

\* ----------------------------------------------------------------------- C12
\* C12: a pointer-up appends a node (exactly one, at the end of the sequence,
\* of kind corner, with exactly one history entry and the closed flag
\* unchanged) only when no drag target is set, the pointer did not move
\* farther than DRAG_THRESHOLD / zoom from where the button went down, ctrl is
\* not held, space is not held and the gesture was not a symmetry pick; a
\* pointer-up with ctrl held never appends a node.
C12_AppendOnlyOnPlainClick ==
    [][isPointerUp =>
          /\ liveNodes' # liveNodes =>
                /\ Len(nodes') = Len(nodes) + 1
                /\ \A i \in 1..Len(nodes) : liveNodes'[i].anchor = liveNodes[i].anchor
                /\ liveNodes'[Len(nodes')].type = "corner"
                /\ historyIndex' = historyIndex + 1
                /\ Len(history') = historyIndex + 2
                /\ historyValues'[Len(history')] = liveEntry'
                /\ isPathClosed' = isPathClosed
                /\ draggedInfo = NoDrag
                /\ ~travel[1].far
                /\ ~ctrlHeld'
                /\ ~isSpacePressed
                /\ gesture \notin pickLabels
          /\ ctrlHeld' => liveNodes' = liveNodes]_vars

\* ----------------------------------------------------------------------- C13
\* A pointer-down of editing mode: space not held, no edge being picked.
isEditDown == isPointerDown /\ ~isSpacePressed /\ symmetryState # "picking-edge"

\* The squared distances from `point' to every segment of the node cycle, the
\* last-to-first one included.
segmentDistances(point) ==
    [i \in 0..(Len(nodes) - 1) |-> segmentDistance(point, i).distSq]

\* The segments of the path within INSERT_THRESHOLD / zoom: the last-to-first
\* one counts on a closed path only.
nearSegments(dist) ==
    {k \in DOMAIN dist : /\ isPathClosed \/ k < Len(nodes) - 1
                         /\ LessThanOverZoom(dist[k], INSERT_THRESHOLD, zoom)}

\* The step inserted one smooth node after segment start k: the former nodes
\* keep their order around it, and differ at most by the ctrl2 of node k and
\* the ctrl1 of the node after it.
insertedAfter(k) ==
    /\ Len(nodes') = Len(nodes) + 1
    /\ liveNodes'[k + 2].type = "smooth"
    /\ \A i \in 0..(Len(nodes) - 1) :
           LET old == liveNodes[i + 1]
               new == liveNodes'[IF i <= k THEN i + 1 ELSE i + 2]
           IN  /\ new.anchor = old.anchor
               /\ new.type = old.type
               /\ i # k => new.ctrl2 = old.ctrl2
               /\ i # nextIndex(k) => new.ctrl1 = old.ctrl1
    /\ isPathClosed' = isPathClosed
    /\ selectedNodeIndex' = k + 1
    /\ draggedInfo' = Drag(k + 1, "anchor")

\* C13: a pointer-down of editing mode that hits no anchor and no handle and
\* lies within INSERT_THRESHOLD / zoom of a segment inserts exactly one smooth
\* node right after the start node of a nearest such segment (at the end of
\* the sequence for the last-to-first segment of a closed path); the former
\* nodes change at most in the ctrl2 of the start node and the ctrl1 of the
\* end node, the closed flag is unchanged, and the new node is the selection
\* and the drag target with role anchor. On an open path the last-to-first
\* segment is no candidate: with no other segment near, the path is unchanged.
C13_InsertOnSegment ==
    [][(isEditDown /\ Len(nodes) > 0 /\ hitTarget(pointer'[1]) = NoDrag) =>
          \A dist \in {segmentDistances(pointer'[1])} :
              \A near \in {nearSegments(dist)} :
                  IF near = {}
                  THEN pathUnchanged /\ historyUnchanged
                  ELSE \E k \in near : /\ \A j \in near : dist[k] <= dist[j]
                                       /\ insertedAfter(k)]_vars

\* A node was inserted on the last-to-first segment of a closed path.
C13_Witness ==
    /\ last = "down-insert"
    /\ isPathClosed
    /\ selectedNodeIndex = Len(nodes) - 1
    /\ draggedInfo = Drag(Len(nodes) - 1, "anchor")
    /\ liveNodes[Len(nodes)].type = "smooth"

\* ----------------------------------------------------------------------- C14
\* The step ends a pointer gesture: the first pointer-up or pointer-leave
\* after a pointer-down.
isGestureEnd == tally # <<>> /\ (isPointerUp \/ isPointerLeave)

\* C14: a pointer gesture, from a pointer-down to the next pointer-up or
\* pointer-leave, whose handlers changed the path has added exactly one
\* history entry when it ends; the gesture that inserts a node on a segment
\* and is then released is one of them.
C14_OneEntryPerGesture ==
    [][isGestureEnd =>
          ((tally[1].edited \/ ~pathUnchanged)
              => tally[1].entries + Len(commit') = 1)]_vars

\* ----------------------------------------------------------------------- C15
\* The handles of `node' lie on one line through its anchor, on opposite
\* rays from it (a handle on the anchor lies on every ray).
onOppositeRays(node) ==
    LET ux == node.ctrl1.x - node.anchor.x
        uy == node.ctrl1.y - node.anchor.y
        vx == node.ctrl2.x - node.anchor.x
        vy == node.ctrl2.y - node.anchor.y
    IN  /\ ux * vy - uy * vx = 0
        /\ ux * vx + uy * vy <= 0

smoothSeam(node) == node.type = "smooth" /\ onOppositeRays(node)

\* C15: after a successful symmetry pick both axis nodes, the first node of
\* the new path and the one after the mirrored nodes, are smooth and have
\* ctrl1, anchor and ctrl2 on one line with the handles on opposite rays.
C15_SeamIsSmooth ==
    [][(isPick /\ last' = "symmetry-ok") =>
          /\ smoothSeam(liveNodes'[1])
          /\ smoothSeam(liveNodes'[Len(nodes)])]_vars

\* ----------------------------------------------------------------------- C16
\* The step is a pointer-move that drags role `role' of an existing node.
isDragOf(roles) ==
    /\ last' = "move-drag"
    /\ draggedInfo.type \in roles
    /\ draggedInfo.index < Len(nodes)

\* Every node but the one at 0-based index i is as it was.
othersUnchanged(i) ==
    /\ Len(nodes') = Len(nodes)
    /\ \A j \in 1..Len(nodes) : j # i + 1 => liveNodes'[j] = liveNodes[j]

\* `opposite' lies, up to the rounding of the coordinates, on the ray from
\* `anchor' that points away from p, at the distance of `before' from
\* `anchor'.
onRayAwayFrom(anchor, p, opposite, before) ==
    LET ox == opposite.x - anchor.x
        oy == opposite.y - anchor.y
        ax == anchor.x - p.x
        ay == anchor.y - p.y
        cross == ox * ay - oy * ax
    IN  /\ cross * cross <= 2 * DistSq(anchor, p)
        /\ ox * ax + oy * ay >= 0
        /\ Abs(ISqrt(4 * DistSq(anchor, opposite)) - ISqrt(4 * DistSq(anchor, before))) <= 3

\* C16: a drag of a handle to p (snapped when snapping is on) sets that
\* handle to p; on a smooth node the opposite handle goes onto the ray from
\* the anchor away from p, at its previous distance from the anchor (for p
\* off the anchor, where there is such a ray); on a corner node the opposite
\* handle is unchanged; the anchor, the kind and every other node are
\* unchanged.
C16_HandleDrag ==
    [][isDragOf({"ctrl1", "ctrl2"}) =>
          LET i == draggedInfo.index
              old == liveNodes[i + 1]
              new == liveNodes'[i + 1]
              p == snapPoint(isSnapEnabled, pointer'[1])
              first == draggedInfo.type = "ctrl1"
              oldOpposite == IF first THEN old.ctrl2 ELSE old.ctrl1
              newOpposite == IF first THEN new.ctrl2 ELSE new.ctrl1
          IN  /\ (IF first THEN new.ctrl1 ELSE new.ctrl2) = p
              /\ new.anchor = old.anchor
              /\ new.type = old.type
              /\ othersUnchanged(i)
              /\ isPathClosed' = isPathClosed
              /\ old.type = "corner" => newOpposite = oldOpposite
              /\ (old.type = "smooth" /\ p # old.anchor)
                     => onRayAwayFrom(old.anchor, p, newOpposite, oldOpposite)]_vars

\* A handle of a smooth node was dragged off the line of its two handles,
\* to a distance from the anchor other than that of the opposite handle.
C16_Witness ==
    /\ last = "move-drag"
    /\ draggedInfo.type = "ctrl2"
    /\ draggedInfo.index < Len(nodes)
    /\ LET node == liveNodes[draggedInfo.index + 1]
       IN  /\ node.type = "smooth"
           /\ node.ctrl2 = Pt(100, 100)
           /\ node.ctrl1 # Pt(200, 0 - 50)
           /\ DistSq(node.anchor, node.ctrl1) # DistSq(node.anchor, node.ctrl2)

\* ----------------------------------------------------------------------- C17
\* C17: a drag of an anchor to p (snapped when snapping is on) puts the
\* anchor on p and moves ctrl1 and ctrl2 by p minus the old anchor, so that
\* both handles keep their offset from the anchor; the kind of the node,
\* every other node, the closed flag and the history are unchanged by the
\* move.
C17_AnchorDragTranslates ==
    [][isDragOf({"anchor"}) =>
          LET i == draggedInfo.index
              old == liveNodes[i + 1]
              new == liveNodes'[i + 1]
              p == snapPoint(isSnapEnabled, pointer'[1])
          IN  /\ new.anchor = p
              /\ new.ctrl1.x - new.anchor.x = old.ctrl1.x - old.anchor.x
              /\ new.ctrl1.y - new.anchor.y = old.ctrl1.y - old.anchor.y
              /\ new.ctrl2.x - new.anchor.x = old.ctrl2.x - old.anchor.x
              /\ new.ctrl2.y - new.anchor.y = old.ctrl2.y - old.anchor.y
              /\ new.type = old.type
              /\ othersUnchanged(i)
              /\ isPathClosed' = isPathClosed
              /\ historyUnchanged]_vars

\* An anchor is being dragged and is away from where the history entry at
\* the index has it.
C17_Witness ==
    /\ last = "move-drag"
    /\ draggedInfo.type = "anchor"
    /\ draggedInfo.index < Len(nodes)
    /\ wasDragging
    /\ LET entry == historyValues[historyIndex + 1]
           k == draggedInfo.index + 1
       IN  /\ Len(entry.nodes) = Len(nodes)
           /\ entry.nodes[k].anchor # liveNodes[k].anchor
           /\ liveNodes[k].anchor = pointer[1]

\* ----------------------------------------------------------------------- C18
\* The step is a pointer-up that appends a node to a path of at least one node.
isAppendToPath == isPointerUp /\ last' = "up-append" /\ Len(nodes) > 0

\* `handle' points from `from' toward `to', up to the rounding of the
\* coordinates.
pointsToward(from, handle, to) ==
    LET hx == handle.x - from.x
        hy == handle.y - from.y
        tx == to.x - from.x
        ty == to.y - from.y
        cross == hx * ty - hy * tx
    IN  /\ cross * cross <= 2 * DistSq(from, to)
        /\ hx * tx + hy * ty >= 0

\* Twice the distance between two points, rounded down.
twiceDistance(p, q) == ISqrt(4 * DistSq(p, q))

\* C18: an append to a non-empty path changes, among the former nodes, only
\* the ctrl2 of the former last node: it then points from that node's anchor
\* toward the new anchor and is as far from the anchor as it was; the anchor,
\* ctrl1 and kind of the former last node and all earlier nodes are unchanged.
C18_AppendKeepsHandleLength ==
    [][isAppendToPath =>
          LET n == Len(nodes)
              prev == liveNodes[n]
              now == liveNodes'[n]
              added == liveNodes'[n + 1]
          IN  /\ Len(nodes') = n + 1
              /\ \A i \in 1..(n - 1) : liveNodes'[i] = liveNodes[i]
              /\ now.anchor = prev.anchor
              /\ now.ctrl1 = prev.ctrl1
              /\ now.type = prev.type
              /\ pointsToward(now.anchor, now.ctrl2, added.anchor)
              /\ Abs(twiceDistance(now.anchor, now.ctrl2)
                       - twiceDistance(prev.anchor, prev.ctrl2)) <= 3]_vars

\* ----------------------------------------------------------------------- C19
\* `handle' is `anchor' plus sign times a quarter of the way from `prev' to
\* `anchor', up to the rounding of the coordinates.
atQuarterAlong(handle, anchor, prev, sign) ==
    /\ Abs(SMOOTHING_DIV * sign * (handle.x - anchor.x) - (anchor.x - prev.x)) <= SMOOTHING_DIV
    /\ Abs(SMOOTHING_DIV * sign * (handle.y - anchor.y) - (anchor.y - prev.y)) <= SMOOTHING_DIV

\* C19: the node appended to a non-empty path has ctrl1 = anchor - L * u and
\* ctrl2 = anchor + L * u, with u the unit direction from the former last
\* anchor to the new anchor and L a quarter of their distance; the first
\* node of a path has ctrl1 = anchor - (50, 0) and ctrl2 = anchor + (50, 0).
C19_AppendedHandlesSymmetric ==
    [][(isPointerUp /\ last' = "up-append") =>
          LET n == Len(nodes)
              added == liveNodes'[n + 1]
          IN  IF n = 0
              THEN /\ added.ctrl1 = Pt(added.anchor.x - DEFAULT_HANDLE, added.anchor.y)
                   /\ added.ctrl2 = Pt(added.anchor.x + DEFAULT_HANDLE, added.anchor.y)
              ELSE /\ atQuarterAlong(added.ctrl1, added.anchor, liveNodes[n].anchor, 0 - 1)
                   /\ atQuarterAlong(added.ctrl2, added.anchor, liveNodes[n].anchor, 1)]_vars

\* ----------------------------------------------------------------------- C20
isToggleClose == last' \in {"open", "close"}

\* C20: toggleClosePath flips the closed flag and adds exactly one history
\* entry, the path it leaves. Opening changes no node. Closing changes, of a
\* path of at least two nodes, only the ctrl2 of the last node and the ctrl1
\* of the first node: each is put on the line between the last and the first
\* anchor, a quarter of their distance from its own anchor toward the other;
\* the anchors, the kinds, the other handles and the node count are unchanged.
C20_ToggleClosePath ==
    [][isToggleClose =>
          LET n == Len(nodes)
          IN  /\ isPathClosed' = ~isPathClosed
              /\ historyIndex' = historyIndex + 1
              /\ Len(history') = historyIndex + 2
              /\ \A i \in 1..(historyIndex + 1) : historyValues'[i] = historyValues[i]
              /\ historyValues'[Len(history')] = liveEntry'
              /\ Len(nodes') = n
              /\ IF isPathClosed
                 THEN liveNodes' = liveNodes
                 ELSE n >= 2 =>
                      /\ \A i \in 1..n :
                             /\ liveNodes'[i].anchor = liveNodes[i].anchor
                             /\ liveNodes'[i].type = liveNodes[i].type
                             /\ i # 1 => liveNodes'[i].ctrl1 = liveNodes[i].ctrl1
                             /\ i # n => liveNodes'[i].ctrl2 = liveNodes[i].ctrl2
                      /\ atQuarterAlong(liveNodes'[n].ctrl2, liveNodes[n].anchor,
                                        liveNodes[1].anchor, 0 - 1)
                      /\ atQuarterAlong(liveNodes'[1].ctrl1, liveNodes[1].anchor,
                                        liveNodes[n].anchor, 0 - 1)]_vars

\* The triangle was just closed: the handles at the closing segment have left
\* their places along the x axis.
C20_Witness ==
    /\ last = "close"
    /\ isPathClosed
    /\ Len(nodes) = 3
    /\ liveNodes[1].ctrl1 = Pt(50, 50)
    /\ liveNodes[3].ctrl2 = Pt(150, 150)
    /\ historyIndex = 4

\* ----------------------------------------------------------------------- C21
handleRoles == {"ctrl1", "ctrl2"}

\* C21: a pointer-down on an open path leaves no drag target or one of role
\* anchor, wherever the pointer is; and a handle becomes the drag target only
\* in a pointer-down on a closed path, within HANDLE_HIT / zoom of that
\* handle, with no anchor of the same or a later node within ANCHOR_HIT / zoom.
C21_NoHandleDragOnOpenPath ==
    [][/\ (isPointerDown /\ ~isPathClosed) => draggedInfo'.type \notin handleRoles
       /\ (draggedInfo' # draggedInfo /\ draggedInfo'.type \in handleRoles) =>
              /\ isPointerDown
              /\ isPathClosed
              /\ draggedInfo'.index < Len(nodes)
              /\ LET p == pointer'[1]
                     i == draggedInfo'.index
                     node == liveNodes[i + 1]
                     handle == IF draggedInfo'.type = "ctrl1" THEN node.ctrl1 ELSE node.ctrl2
                 IN  /\ LessThanOverZoom(DistSq(p, handle), HANDLE_HIT, zoom)
                     /\ \A j \in (i + 1)..Len(nodes) :
                            ~LessThanOverZoom(DistSq(p, liveNodes[j].anchor), ANCHOR_HIT, zoom)]_vars

\* A pointer-down on an open path of three nodes, on the ctrl2 of its last
\* node, has set no drag target.
C21_Witness ==
    /\ gesture = "down-empty"
    /\ last = "down-empty"
    /\ ~isPathClosed
    /\ Len(nodes) = 3
    /\ pointer = <<liveNodes[3].ctrl2>>
    /\ draggedInfo = NoDrag

\* ----------------------------------------------------------------------- C22
isWheel == last' \in {"wheel", "wheel-none"}

zoomWithinLimits == MIN_ZOOM <= viewState.zoom /\ viewState.zoom <= MAX_ZOOM

\* C22: in every reachable state MIN_ZOOM <= zoom <= MAX_ZOOM; a wheel event
\* that leaves the zoom where it is, as the one whose clamped zoom is the
\* current zoom does, leaves the pan as well; and no wheel event changes the
\* nodes, the closed flag, the history, the selection or the interaction mode.
C22_ZoomClamped ==
    /\ []zoomWithinLimits
    /\ [][isWheel =>
             /\ viewState'.zoom = viewState.zoom => viewState' = viewState
             /\ last' = "wheel-none" <=> viewState'.zoom = viewState.zoom
             /\ last' = "wheel-none" => viewState.zoom \in {MIN_ZOOM, MAX_ZOOM}
             /\ pathUnchanged
             /\ historyUnchanged
             /\ UNCHANGED <<selectedNodeIndex, draggedInfo, isPanning, isSpacePressed,
                            symmetryState>>]_vars

\* A wheel tick at the least zoom has changed nothing.
C22_Witness == viewState.zoom = MIN_ZOOM /\ last = "wheel-none" /\ free > 0

C24_PathDescription ==
    LET n == Len(nodes)
        d == pathData
        curves == IF isPathClosed THEN n ELSE n - 1
    IN  IF n = 0 THEN d = <<>>
        ELSE /\ Len(d) = 1 + curves + (IF isPathClosed THEN 1 ELSE 0)
             /\ d[1] = [cmd |-> "M", args |-> <<liveNodes[1].anchor.x, liveNodes[1].anchor.y>>]
             /\ \A i \in 0..(curves - 1) :
                    LET from == liveNodes[i + 1]
                        to == liveNodes[((i + 1) % n) + 1]
                    IN  d[i + 2] = [cmd |-> "C",
                                    args |-> <<from.ctrl2.x, from.ctrl2.y, to.ctrl1.x, to.ctrl1.y,
                                               to.anchor.x, to.anchor.y>>]
             /\ isPathClosed => d[Len(d)] = [cmd |-> "Z", args |-> <<>>]
             /\ \A k \in 1..Len(d) : d[k].cmd = "Z" => (isPathClosed /\ k = Len(d))

\* A closed path of four nodes whose last cubic command ends on the first
\* anchor.
C24_Witness ==
    /\ isPathClosed
    /\ Len(nodes) = 4
    /\ Len(pathData) = 6
    /\ pathData[5].args[5] = liveNodes[1].anchor.x
    /\ pathData[5].args[6] = liveNodes[1].anchor.y
    /\ liveNodes[1].anchor # liveNodes[4].anchor

C26_DragTargetValid ==
    draggedInfo # NoDrag => (0 <= draggedInfo.index /\ draggedInfo.index < Len(nodes))

\* ----------------------------------------------------------------------- C27
selectionValid ==
    selectedNodeIndex # NullIndex => (0 <= selectedNodeIndex /\ selectedNodeIndex < Len(nodes))

\* C27: whenever the selection is not null it is an index of the live node
\* sequence, and so every delete command given with a selection takes the
\* node count down by exactly one.
C27_SelectionValid ==
    /\ []selectionValid
    /\ [][(isDelete /\ selectedNodeIndex # NullIndex) => Len(nodes') = Len(nodes) - 1]_vars

\* ----------------------------------------------------------------------- C28
\* A step of the pointer handlers or of the space key.
isPointerOrSpaceStep ==
    \/ isPointerMove \/ isPointerUp \/ isPointerLeave
    \/ last' \in {"space-down", "space-up"}

\* C28: a pan gesture edits nothing: the pointer-down made with space held
\* and every pointer or space-key step up to the next pointer-up or
\* pointer-leave, that one included, leave nodes, closed flag, history and
\* history index unchanged, whenever space is let go.
C28_PanNeverEdits ==
    [][/\ (isPointerDown /\ isSpacePressed) => pathUnchanged /\ historyUnchanged
       /\ (gesture = "down-pan" /\ tally # <<>> /\ isPointerOrSpaceStep)
              => pathUnchanged /\ historyUnchanged]_vars

\* ----------------------------------------------------------------------- C29
\* C29: no two adjacent history entries hold the same nodes and closed flag;
\* so a press on an anchor or handle released without a pointer-move, and a
\* clear of an empty canvas, add no entry.
C29_EveryCommitRecordsAChange ==
    \A i \in 1..(Len(history) - 1) : historyValues[i] # historyValues[i + 1]

\* ----------------------------------------------------------------------- C30
\* C30: in no reachable state is panning active while a drag target is set,
\* and in none is a drag target set while the symmetry mode is picking-edge.
C30_ModesExclusive ==
    /\ ~(isPanning /\ draggedInfo # NoDrag)
    /\ ~(draggedInfo # NoDrag /\ symmetryState = "picking-edge")

====
